---- MODULE Spec2Model ----
(***************************************************************************)
(* Multi-branch query layer of the maintenance dashboard.                  *)
(*                                                                         *)
(* DatabaseManager (dbManager) runs one parameterised query against the    *)
(* four branch databases.  Every execution opens its own connection,       *)
(* queries, closes and returns a QueryResult envelope.  queryAllBranches   *)
(* fans the query out to all branches, and (in the retrying variant)       *)
(* re-executes the failed ones in up to two further rounds.                *)
(*                                                                         *)
(* One behaviour of Spec is one call of the database manager: either       *)
(* queryAllBranches with retries, queryAllBranches without retries (the    *)
(* older copy of the manager), or queryBranch for a single branch.         *)
(* Wall-clock fields (duration) are left out of the envelopes.             *)
(***************************************************************************)
EXTENDS Integers, Sequences, FiniteSets, TLC

(* ------------------------------------------------------------------ *)
(* Configuration                                                      *)
(* ------------------------------------------------------------------ *)

\* this.branchOrder
branchOrder == <<"PMB", "PTA", "QTN", "CPT">>

Branches == {branchOrder[i] : i \in 1..Len(branchOrder)}

MaxRetries_One == 2 - 1

MaxRetries_Three == 2 + 1

\* for (let retryCount = 1; retryCount <= 2; retryCount++)
MaxRetries == 2

BackoffDelay_Fixed(retryCount) == 500

\* const delay = 500 * Math.pow(2, retryCount - 1)
BackoffDelay(retryCount) == 500 * 2^(retryCount - 1)

\* Error connection.connect() rejects with.
ConnectErrors == {"ETIMEOUT"}

\* Error request.query() rejects with.
QueryErrors == {"EREQUEST"}

\* Error connection.close() rejects with.
CloseErrors == {"ECLOSE"}

\* result.recordset: the row sets a branch may return.
Recordsets == {<<>>, <<"row1">>}

(* ------------------------------------------------------------------ *)
(* QueryResult envelopes                                              *)
(* ------------------------------------------------------------------ *)

\* The promise of an execution that has not settled.
Pending == [branch |-> "", pending |-> TRUE]

\* A rejected promise (an execution that threw past its catch).
Rejected(branch, err) == [branch |-> branch, rejected |-> TRUE, error |-> err]

IsRejected(r) == "rejected" \in DOMAIN r

\* return { branch, data: result.recordset, success: true, recordCount }
ExecSuccess(branch, recordset) ==
    [branch |-> branch, data |-> recordset, success |-> TRUE,
     recordCount |-> Len(recordset)]

ExecFailure_Rethrow(branch, err) == Rejected(branch, err)

ExecFailure_NoError(branch, err) ==
    [branch |-> branch, data |-> <<>>, success |-> FALSE]

\* catch (error) { return { branch, data: [], success: false, error: error.message } }
ExecFailure(branch, err) ==
    [branch |-> branch, data |-> <<>>, success |-> FALSE, error |-> err]

(* ------------------------------------------------------------------ *)
(* Array helpers of the retry loop                                    *)
(* ------------------------------------------------------------------ *)

RECURSIVE FailedOf(_)
\* results.filter(r => !r.success).map(r => r.branch)
FailedOf(rs) ==
    IF rs = <<>> THEN <<>>
    ELSE IF ~Head(rs).success THEN <<Head(rs).branch>> \o FailedOf(Tail(rs))
         ELSE FailedOf(Tail(rs))

FindIndex_First(rs, branch) == 0

\* results.findIndex(r => r.branch === branch): 0-based, -1 when absent
FindIndex(rs, branch) ==
    IF \E i \in 1..Len(rs) : rs[i].branch = branch
    THEN (CHOOSE i \in 1..Len(rs) :
            /\ rs[i].branch = branch
            /\ \A j \in 1..(i - 1) : rs[j].branch # branch) - 1
    ELSE -1

\* arr.indexOf(x): 0-based, -1 when absent
IndexOf(arr, x) ==
    IF \E i \in 1..Len(arr) : arr[i] = x
    THEN (CHOOSE i \in 1..Len(arr) :
            /\ arr[i] = x
            /\ \A j \in 1..(i - 1) : arr[j] # x) - 1
    ELSE -1

\* arr[idx] = v for a 0-based idx; an index of -1 leaves the elements alone
AssignAt(arr, idx, v) ==
    IF idx + 1 \in 1..Len(arr) THEN [arr EXCEPT ![idx + 1] = v] ELSE arr

\* arr.splice(start, 1); a start of -1 removes the last element
SpliceOne(arr, start) ==
    LET s == IF start < 0 THEN Len(arr) + start ELSE start
    IN  IF s + 1 \in 1..Len(arr)
        THEN SubSeq(arr, 1, s) \o SubSeq(arr, s + 2, Len(arr))
        ELSE arr

RemoveRecovered_Keep(failed, branch) == failed

\* failedBranches.splice(failedBranches.indexOf(branch), 1)
RemoveRecovered(failed, branch) == SpliceOne(failed, IndexOf(failed, branch))

(* ------------------------------------------------------------------ *)
(* Strings                                                            *)
(*                                                                    *)
(* A JavaScript string is the sequence of its characters, each a      *)
(* one-character string; null is the value Null.                      *)
(* ------------------------------------------------------------------ *)

Null == <<"null">>

Lowercase == <<"a", "b", "c", "d", "e", "f", "g", "h", "i", "j", "k", "l", "m",
               "n", "o", "p", "q", "r", "s", "t", "u", "v", "w", "x", "y", "z">>

Uppercase == <<"A", "B", "C", "D", "E", "F", "G", "H", "I", "J", "K", "L", "M",
               "N", "O", "P", "Q", "R", "S", "T", "U", "V", "W", "X", "Y", "Z">>

Digits == <<"0", "1", "2", "3", "4", "5", "6", "7", "8", "9">>

Range(f) == {f[i] : i \in DOMAIN f}

\* The characters in the order of their UTF-16 code units (the order of
\* Array.prototype.sort without a comparator).
CodeUnitOrder ==
    <<"\t", " ", "&", "-", "/">> \o Digits \o <<":", "=">> \o Uppercase
        \o <<"[", "]", "_">> \o Lowercase

CodeUnit(c) == CHOOSE i \in 1..Len(CodeUnitOrder) : CodeUnitOrder[i] = c

\* String.prototype.toUpperCase, per character
ToUpperChar(c) ==
    IF \E i \in 1..Len(Lowercase) : Lowercase[i] = c
    THEN Uppercase[CHOOSE i \in 1..Len(Lowercase) : Lowercase[i] = c]
    ELSE c

\* String.prototype.toUpperCase
ToUpperCase(s) == [i \in 1..Len(s) |-> ToUpperChar(s[i])]

IsSpace(c) == c \in {" ", "\t"}

RECURSIVE TrimStart(_)
TrimStart(s) ==
    IF s # <<>> /\ IsSpace(Head(s)) THEN TrimStart(Tail(s)) ELSE s

RECURSIVE TrimEnd(_)
TrimEnd(s) ==
    IF s # <<>> /\ IsSpace(s[Len(s)]) THEN TrimEnd(SubSeq(s, 1, Len(s) - 1)) ELSE s

\* String.prototype.trim
Trim(s) == TrimEnd(TrimStart(s))

\* String.prototype.startsWith
StartsWith(s, p) == Len(s) >= Len(p) /\ SubSeq(s, 1, Len(p)) = p

\* String.prototype.substring(start)
Substring(s, start) == SubSeq(s, start + 1, Len(s))

IsUpperAlnum(c) == c \in Range(Uppercase) \cup Range(Digits)

KeepUpperAlnum_Identity(s) == s

\* s.replace(/[^A-Z0-9]/g, '')
KeepUpperAlnum(s) == SelectSeq(s, IsUpperAlnum)

(* ------------------------------------------------------------------ *)
(* CostCodeService                                                    *)
(* ------------------------------------------------------------------ *)

\* const BRANCH_PREFIXES = ['PMB', 'PTA', 'QTN', 'CPT'], with the branch code
\* each prefix spells
BRANCH_PREFIXES ==
    << [code |-> "PMB", text |-> <<"P", "M", "B">>],
       [code |-> "PTA", text |-> <<"P", "T", "A">>],
       [code |-> "QTN", text |-> <<"Q", "T", "N">>],
       [code |-> "CPT", text |-> <<"C", "P", "T">>] >>

\* normalized.startsWith(prefix + '-') || normalized.startsWith(prefix + ' ')
HasPrefix(s, prefix) ==
    StartsWith(s, prefix \o <<"-">>) \/ StartsWith(s, prefix \o <<" ">>)

\* The index of the first branch prefix s starts with, 0 when there is none.
FirstPrefix(s) ==
    IF \E i \in 1..Len(BRANCH_PREFIXES) : HasPrefix(s, BRANCH_PREFIXES[i].text)
    THEN CHOOSE i \in 1..Len(BRANCH_PREFIXES) :
            /\ HasPrefix(s, BRANCH_PREFIXES[i].text)
            /\ \A j \in 1..(i - 1) : ~HasPrefix(s, BRANCH_PREFIXES[j].text)
    ELSE 0

\* CostCodeService.normalize: the form used for comparison
normalize(costCode) ==
    IF costCode = Null \/ costCode = <<>> THEN <<>>
    ELSE LET upper == ToUpperCase(Trim(costCode))
             i == FirstPrefix(upper)
             stripped == IF i = 0 THEN upper
                         ELSE Trim(Substring(upper, Len(BRANCH_PREFIXES[i].text) + 1))
         IN  KeepUpperAlnum(stripped)

\* The outcomes of extractBranchFromCode besides a branch code: the return
\* value null, and the TypeError of calling trim() on null.
NoBranch == "null"
TypeError == "TypeError"

\* CostCodeService.extractBranchFromCode
extractBranchFromCode(costCode) ==
    IF costCode = Null THEN TypeError
    ELSE LET i == FirstPrefix(ToUpperCase(Trim(costCode)))
         IN  IF i = 0 THEN NoBranch ELSE BRANCH_PREFIXES[i].code

(* ------------------------------------------------------------------ *)
(* Permission filter                                                  *)
(*                                                                    *)
(* A user's assignedGroups / assignedCostCodes is null, an array, or  *)
(* a string holding JSON text; JSON text is the sequence of its       *)
(* tokens "[", element, ",", element, "]".                            *)
(* ------------------------------------------------------------------ *)

JsNull == [kind |-> "null"]
JsArray(items) == [kind |-> "array", items |-> items]
JsString(text) == [kind |-> "string", text |-> text]

RECURSIVE JsonElements(_)
\* The tokens between the brackets: element ("," element)*
JsonElements(tokens) ==
    IF tokens = <<>> THEN <<>>
    ELSE <<tokens[1]>> \o JsonElements(SubSeq(tokens, 3, Len(tokens)))

\* JSON.stringify of an array of strings
JsonStringify(items) ==
    <<"[">> \o [i \in 1..(IF items = <<>> THEN 0 ELSE 2 * Len(items) - 1) |->
                  IF i % 2 = 1 THEN items[(i + 1) \div 2] ELSE ","]
            \o <<"]">>

\* JSON.parse of the text of an array of strings
JsonParse(text) == JsonElements(SubSeq(text, 2, Len(text) - 1))

\* The truthiness of a null / array / string value
Truthy(v) == v.kind = "array" \/ (v.kind = "string" /\ v.text # <<>>)

ParseAssigned_NullAsEmpty(v) ==
    IF Truthy(v)
    THEN IF v.kind = "string" THEN JsArray(JsonParse(v.text)) ELSE v
    ELSE JsArray(<<>>)

\* v ? (typeof v === 'string' ? JSON.parse(v) : v) : null
ParseAssigned(v) ==
    IF Truthy(v)
    THEN IF v.kind = "string" THEN JsArray(JsonParse(v.text)) ELSE v
    ELSE JsNull

BranchPermits_AdminExempt(item, user) ==
    user.role = "ADMIN" \/ user.branch = "ALL" \/ item.branch = user.branch

\* !(user.branch && user.branch !== 'ALL') || item.branch === user.branch
BranchPermits(item, user) ==
    ~(user.branch # "" /\ user.branch # "ALL") \/ item.branch = user.branch

CodeMatches_Normalized(itemCode, code) == normalize(itemCode) = normalize(code)

\* item.costCode === code
CodeMatches(itemCode, code) == itemCode = code

\* assignedGroups && assignedGroups.length > 0
HasGroupRestrictions(assignedGroups) ==
    assignedGroups.kind = "array" /\ Len(assignedGroups.items) > 0

\* Array.isArray(assignedCodes) && assignedCodes.length > 0
HasCodeRestrictions(assignedCodes) ==
    assignedCodes.kind = "array" /\ Len(assignedCodes.items) > 0

\* hasGroupRestrictions && assignedGroups.includes(item.group)
InAssignedGroup(item, assignedGroups) ==
    /\ HasGroupRestrictions(assignedGroups)
    /\ \E i \in 1..Len(assignedGroups.items) : assignedGroups.items[i] = item.group

\* hasCodeRestrictions && assignedCodes.some(code => item.costCode === code)
InAssignedCodes(item, assignedCodes) ==
    /\ HasCodeRestrictions(assignedCodes)
    /\ \E i \in 1..Len(assignedCodes.items) :
          CodeMatches(item.costCode, assignedCodes.items[i])

KeepItem_And(item, assignedGroups, assignedCodes) ==
    InAssignedGroup(item, assignedGroups) /\ InAssignedCodes(item, assignedCodes)

\* return inAssignedGroup || inAssignedCodes
KeepItem(item, assignedGroups, assignedCodes) ==
    InAssignedGroup(item, assignedGroups) \/ InAssignedCodes(item, assignedCodes)

ExplicitDeny_Never(assignedCodes) == FALSE

\* assignedCodes !== null && Array.isArray(assignedCodes) && assignedCodes.length === 0
ExplicitDeny(assignedCodes) ==
    assignedCodes.kind = "array" /\ Len(assignedCodes.items) = 0

\* filterDataByPermissions(data, user)
filterDataByPermissions(data, user) ==
    LET byBranch == SelectSeq(data, LAMBDA item : BranchPermits(item, user))
        assignedGroups == ParseAssigned(user.assignedGroups)
        assignedCodes == ParseAssigned(user.assignedCostCodes)
    IN  IF user.role # "ADMIN"
        THEN IF HasGroupRestrictions(assignedGroups) \/ HasCodeRestrictions(assignedCodes)
             THEN SelectSeq(byBranch,
                            LAMBDA item : KeepItem(item, assignedGroups, assignedCodes))
             ELSE IF ExplicitDeny(assignedCodes) THEN <<>> ELSE byBranch
        ELSE byBranch

(* ------------------------------------------------------------------ *)
(* State                                                              *)
(* ------------------------------------------------------------------ *)

VARIABLES
    kind,            \* the call in progress: "none", "retry", "plain", "single"
    pc,              \* position of the call: idle, first, backoff, iter, await, done
    phase,           \* per branch, position of its execution: idle, connect, query, close, settled
    rows,            \* per branch, the recordset request.query() resolved with
    settled,         \* per branch, what its latest execution settled with
    open,            \* per branch, connections connected and not closed
    results,         \* const results (the array built by Promise.all)
    failedBranches,  \* const failedBranches
    retryCount,      \* let retryCount
    nextIndex,       \* the index of the for...of iterator over failedBranches
    current,         \* const branch of the for...of body
    returned,        \* the value the call resolved with
    thrown,          \* the call rejected
    delays,          \* the backoff waits that have elapsed, in order
    attempts,        \* per branch, executions started in this call
    fails,           \* per branch, executions of this call that ended success=false
    roundFailed,     \* the branches in failedBranches when the current round began
    roundRetries     \* per branch, executions started in the current round

\* The state of the services around the database manager.
VARIABLES
    fpc,             \* filterDataByPermissions: "off", "call", "returned"
    fData,           \* its argument data
    fUser,           \* its argument user
    fResult          \* its return value

\* The cache service.
VARIABLES
    cache,           \* this.cache: key -> [value, expiresAt]
    now,             \* Date.now(), in milliseconds
    call             \* the cache method that ran last, with arguments and result

\* DataService.getPurchaseRecords.
VARIABLES
    gpc,             \* "idle", "fetching" (awaiting dbManager), "returned", "threw"
    gBranch,         \* its argument branch
    gKey,            \* cacheKey
    gResult,         \* the result array the database manager resolved with
    gReturn          \* the records it returned

\* A call of one of the cost code service's functions.
VARIABLES
    cpc,             \* "off", "call", "returned"
    cFn,             \* the function called
    cArg,            \* its argument(s)
    cResult          \* its return value

\* GET /api/maintenance/records, requests in progress at the same time.
VARIABLES
    rpc,             \* per request: "idle", "fetching" (awaiting getPurchaseRecords), "done"
    rUser,           \* per request, req.user
    rOrigin,         \* per request, the result array its allRecords were processed from
    rResponse,       \* per request, the response sent
    rWith,           \* per request, the requests awaiting a fetch when its own fetch began
    finished,        \* the requests whose fetch resolved, in the order they resolved
    cacheOrigin      \* the result array the cached records were processed from

\* The connection pools of the database manager.
VARIABLES
    pools,           \* this.pools: the branches with an entry
    poolPromises,    \* this.poolPromises: per branch "absent", or the state of the promise held
    served,          \* per branch, what the latest getPool(branch) returned
    spc,             \* getConnectionStatus: 0 idle, i awaiting branchOrder[i], 5 returned
    status           \* const status of getConnectionStatus

\* The pagination of the records route.
VARIABLES
    ppc,             \* "off", "call", "returned"
    pRecords,        \* records, the filtered list
    pQuery,          \* req.query.page and req.query.pageSize
    pResult          \* what paginateRecords returned

dbVars == <<kind, pc, phase, rows, settled, open, results, failedBranches,
            retryCount, nextIndex, current, returned, thrown, delays,
            attempts, fails, roundFailed, roundRetries>>

filterVars == <<fpc, fData, fUser, fResult>>

cacheVars == <<cache, now, call>>

dataVars == <<gpc, gBranch, gKey, gResult, gReturn>>

codeVars == <<cpc, cFn, cArg, cResult>>

requestVars == <<rpc, rUser, rOrigin, rResponse, rWith, finished, cacheOrigin>>

poolVars == <<pools, poolPromises, served, spc, status>>

pageVars == <<ppc, pRecords, pQuery, pResult>>

\* The state of the parts a single call of getPurchaseRecords does not use.
extraVars == <<codeVars, requestVars, poolVars, pageVars>>

\* The state a CostCodeService call leaves alone.
codeFrame == <<dbVars, filterVars, cacheVars, dataVars, requestVars, poolVars, pageVars>>

\* The state a request for records leaves alone.
requestFrame == <<dbVars, filterVars, dataVars, codeVars, poolVars, pageVars>>

svcVars == <<filterVars, cacheVars, dataVars, extraVars>>

vars == <<dbVars, svcVars>>

execVars == <<phase, rows, settled, open, attempts, fails>>
loopVars == <<results, failedBranches, retryCount, nextIndex, current, delays,
              roundFailed, roundRetries>>

InFlight(b) == phase[b] \in {"connect", "query", "close"}

DbInit ==
    /\ kind = "none"
    /\ pc = "idle"
    /\ phase = [b \in Branches |-> "idle"]
    /\ rows = [b \in Branches |-> <<>>]
    /\ settled = [b \in Branches |-> Pending]
    /\ open = [b \in Branches |-> 0]
    /\ results = <<>>
    /\ failedBranches = <<>>
    /\ retryCount = 0
    /\ nextIndex = 0
    /\ current = ""
    /\ returned = <<>>
    /\ thrown = FALSE
    /\ delays = <<>>
    /\ attempts = [b \in Branches |-> 0]
    /\ fails = [b \in Branches |-> 0]
    /\ roundFailed = {}
    /\ roundRetries = [b \in Branches |-> 0]

\* No call of filterDataByPermissions.
FilterIdle ==
    /\ fpc = "off"
    /\ fData = <<>>
    /\ fUser = [role |-> "", branch |-> "", assignedGroups |-> JsNull,
                assignedCostCodes |-> JsNull]
    /\ fResult = <<>>

\* constructor: this.cache = new Map()
CacheIdle ==
    /\ cache = [k \in {} |-> k]
    /\ now = 0
    /\ call = [name |-> "none"]

DataIdle ==
    /\ gpc = "idle"
    /\ gBranch = NoBranch
    /\ gKey = <<>>
    /\ gResult = <<>>
    /\ gReturn = <<>>

CodesIdle ==
    /\ cpc = "off"
    /\ cFn = ""
    /\ cArg = <<>>
    /\ cResult = <<>>

Requests == {1, 2}

NoUser == [role |-> "", branch |-> "", assignedGroups |-> JsNull,
           assignedCostCodes |-> JsNull]

NoResponse == [status |-> 0, records |-> <<>>]

RequestsIdle ==
    /\ rpc = [r \in Requests |-> "idle"]
    /\ rUser = [r \in Requests |-> NoUser]
    /\ rOrigin = [r \in Requests |-> <<>>]
    /\ rResponse = [r \in Requests |-> NoResponse]
    /\ rWith = [r \in Requests |-> {}]
    /\ finished = <<>>
    /\ cacheOrigin = <<>>

\* constructor: this.pools = new Map(); this.poolPromises = new Map()
PoolsIdle ==
    /\ pools = {}
    /\ poolPromises = [b \in Branches |-> "absent"]
    /\ served = [b \in Branches |-> "none"]
    /\ spc = 0
    /\ status = [b \in Branches |-> "unset"]

PagesIdle ==
    /\ ppc = "off"
    /\ pRecords = <<>>
    /\ pQuery = <<>>
    /\ pResult = <<>>

ExtraIdle == CodesIdle /\ RequestsIdle /\ PoolsIdle /\ PagesIdle

Init == DbInit /\ FilterIdle /\ CacheIdle /\ DataIdle /\ ExtraIdle

(* ------------------------------------------------------------------ *)
(* executeBranchQuery / queryBranch: one execution against one branch *)
(* ------------------------------------------------------------------ *)

\* The synchronous head of an execution of each branch of bs: the connection
\* object is built and connect() is pending.
StartExecutions(bs) ==
    /\ phase' = [b \in Branches |-> IF b \in bs THEN "connect" ELSE phase[b]]
    /\ rows' = [b \in Branches |-> IF b \in bs THEN <<>> ELSE rows[b]]
    /\ settled' = [b \in Branches |-> IF b \in bs THEN Pending ELSE settled[b]]
    /\ attempts' = [b \in Branches |-> IF b \in bs THEN attempts[b] + 1 ELSE attempts[b]]
    /\ UNCHANGED <<open, fails>>

\* The execution of b ends in its catch block with error err.
Caught(b, err) ==
    /\ phase' = [phase EXCEPT ![b] = "settled"]
    /\ settled' = [settled EXCEPT ![b] = ExecFailure(b, err)]
    /\ rows' = [rows EXCEPT ![b] = <<>>]
    /\ fails' = [fails EXCEPT ![b] = @ + 1]

\* await connection.connect()
Connect(b) ==
    /\ phase[b] = "connect"
    /\ \/ /\ phase' = [phase EXCEPT ![b] = "query"]
          /\ open' = [open EXCEPT ![b] = @ + 1]
          /\ UNCHANGED <<rows, settled, fails>>
       \/ \E err \in ConnectErrors :
            /\ Caught(b, err)
            /\ UNCHANGED open
    /\ UNCHANGED attempts
    /\ UNCHANGED <<kind, pc, returned, thrown>>
    /\ UNCHANGED loopVars
    /\ UNCHANGED svcVars

\* const result = await request.query(query)
Query(b) ==
    /\ phase[b] = "query"
    /\ \/ \E rs \in Recordsets :
            /\ phase' = [phase EXCEPT ![b] = "close"]
            /\ rows' = [rows EXCEPT ![b] = rs]
            /\ UNCHANGED <<settled, fails>>
       \/ \E err \in QueryErrors : Caught(b, err)
    /\ UNCHANGED <<open, attempts>>
    /\ UNCHANGED <<kind, pc, returned, thrown>>
    /\ UNCHANGED loopVars
    /\ UNCHANGED svcVars

\* await connection.close(); return { ... success: true ... }
Close(b) ==
    /\ phase[b] = "close"
    /\ \/ /\ phase' = [phase EXCEPT ![b] = "settled"]
          /\ settled' = [settled EXCEPT ![b] = ExecSuccess(b, rows[b])]
          /\ open' = [open EXCEPT ![b] = @ - 1]
          /\ UNCHANGED <<rows, fails>>
       \/ \E err \in CloseErrors :
            /\ Caught(b, err)
            /\ UNCHANGED open
    /\ UNCHANGED attempts
    /\ UNCHANGED <<kind, pc, returned, thrown>>
    /\ UNCHANGED loopVars
    /\ UNCHANGED svcVars

(* ------------------------------------------------------------------ *)
(* queryAllBranches, queryBranch                                      *)
(* ------------------------------------------------------------------ *)

AllSettled == \A b \in Branches : phase[b] = "settled"

PromiseAll_Reversed ==
    [i \in 1..Len(branchOrder) |-> settled[branchOrder[Len(branchOrder) + 1 - i]]]

\* await Promise.all(promises): the settled values in the order of the promises
PromiseAll == [i \in 1..Len(branchOrder) |-> settled[branchOrder[i]]]

\* The call resolves with value.
Return(value) ==
    /\ pc' = "done"
    /\ returned' = value
    /\ UNCHANGED thrown

\* The call rejects.
Throw ==
    /\ pc' = "done"
    /\ thrown' = TRUE
    /\ UNCHANGED returned

\* queryAllBranches (with retries) is called: the fan-out of the first pass.
QueryAllBranches ==
    /\ pc = "idle"
    /\ kind' = "retry"
    /\ pc' = "first"
    /\ StartExecutions(Branches)
    /\ UNCHANGED <<returned, thrown>>
    /\ UNCHANGED loopVars
    /\ UNCHANGED svcVars

\* The first pass has settled: identify the failed branches; return when
\* there are none, else enter the retry loop at its first backoff wait.
FirstPassDone ==
    /\ kind = "retry"
    /\ pc = "first"
    /\ AllSettled
    /\ IF \E b \in Branches : IsRejected(settled[b])
       THEN /\ Throw
            /\ UNCHANGED <<results, failedBranches, retryCount>>
       ELSE /\ results' = PromiseAll
            /\ failedBranches' = FailedOf(PromiseAll)
            /\ IF Len(FailedOf(PromiseAll)) > 0
               THEN /\ retryCount' = 1
                    /\ pc' = "backoff"
                    /\ UNCHANGED <<returned, thrown>>
               ELSE /\ Return(PromiseAll)
                    /\ UNCHANGED retryCount
    /\ UNCHANGED <<kind, nextIndex, current, delays, roundFailed, roundRetries>>
    /\ UNCHANGED execVars
    /\ UNCHANGED svcVars

\* await new Promise(resolve => setTimeout(resolve, delay)); the for...of
\* over failedBranches starts.
BackoffElapsed ==
    /\ pc = "backoff"
    /\ delays' = Append(delays, BackoffDelay(retryCount))
    /\ nextIndex' = 0
    /\ pc' = "iter"
    /\ roundFailed' = {failedBranches[i] : i \in 1..Len(failedBranches)}
    /\ roundRetries' = [b \in Branches |-> 0]
    /\ UNCHANGED <<kind, results, failedBranches, retryCount, current, returned, thrown>>
    /\ UNCHANGED execVars
    /\ UNCHANGED svcVars

\* The iterator yields failedBranches[nextIndex]; the body calls
\* executeBranchQuery(branch) and awaits it.
RetryNext ==
    /\ pc = "iter"
    /\ nextIndex < Len(failedBranches)
    /\ current' = failedBranches[nextIndex + 1]
    /\ nextIndex' = nextIndex + 1
    /\ StartExecutions({failedBranches[nextIndex + 1]})
    /\ roundRetries' = [roundRetries EXCEPT ![failedBranches[nextIndex + 1]] = @ + 1]
    /\ pc' = "await"
    /\ UNCHANGED <<kind, results, failedBranches, retryCount, returned, thrown,
                   delays, roundFailed>>
    /\ UNCHANGED svcVars

\* retryResult has arrived: on success replace the branch's entry and take the
\* branch off failedBranches; on failure only log.
RetryResult ==
    /\ pc = "await"
    /\ phase[current] = "settled"
    /\ IF IsRejected(settled[current])
       THEN /\ Throw
            /\ UNCHANGED <<results, failedBranches>>
       ELSE /\ IF settled[current].success
               THEN /\ results' = AssignAt(results, FindIndex(results, current),
                                           settled[current])
                    /\ failedBranches' = RemoveRecovered(failedBranches, current)
               ELSE UNCHANGED <<results, failedBranches>>
            /\ pc' = "iter"
            /\ UNCHANGED <<returned, thrown>>
    /\ UNCHANGED <<kind, retryCount, nextIndex, current, delays, roundFailed,
                   roundRetries>>
    /\ UNCHANGED execVars
    /\ UNCHANGED svcVars

\* The iterator is exhausted: break when failedBranches is empty, else
\* retryCount++ and either the next round's backoff or the end of the loop.
RoundEnd ==
    /\ pc = "iter"
    /\ nextIndex >= Len(failedBranches)
    /\ IF Len(failedBranches) = 0 \/ retryCount + 1 > MaxRetries
       THEN /\ Return(results)
            /\ UNCHANGED retryCount
       ELSE /\ retryCount' = retryCount + 1
            /\ pc' = "backoff"
            /\ UNCHANGED <<returned, thrown>>
    /\ UNCHANGED <<kind, results, failedBranches, nextIndex, current, delays,
                   roundFailed, roundRetries>>
    /\ UNCHANGED execVars
    /\ UNCHANGED svcVars

\* queryAllBranches of the manager without retries is called.
QueryAllBranchesNoRetry ==
    /\ pc = "idle"
    /\ kind' = "plain"
    /\ pc' = "first"
    /\ StartExecutions(Branches)
    /\ UNCHANGED <<returned, thrown>>
    /\ UNCHANGED loopVars
    /\ UNCHANGED svcVars

\* const results = await Promise.all(promises); return results
NoRetryReturn ==
    /\ kind = "plain"
    /\ pc = "first"
    /\ AllSettled
    /\ IF \E b \in Branches : IsRejected(settled[b])
       THEN /\ Throw
            /\ UNCHANGED results
       ELSE /\ results' = PromiseAll
            /\ Return(PromiseAll)
    /\ UNCHANGED <<kind, failedBranches, retryCount, nextIndex, current, delays,
                   roundFailed, roundRetries>>
    /\ UNCHANGED execVars
    /\ UNCHANGED svcVars

\* queryBranch(b, query, params) is called for a configured branch.
QueryBranch(b) ==
    /\ pc = "idle"
    /\ kind' = "single"
    /\ pc' = "first"
    /\ current' = b
    /\ StartExecutions({b})
    /\ UNCHANGED <<returned, thrown>>
    /\ UNCHANGED <<results, failedBranches, retryCount, nextIndex, delays,
                   roundFailed, roundRetries>>
    /\ UNCHANGED svcVars

\* queryBranch returns the envelope of its execution.
QueryBranchReturn ==
    /\ kind = "single"
    /\ pc = "first"
    /\ phase[current] = "settled"
    /\ IF IsRejected(settled[current])
       THEN Throw
       ELSE Return(<<settled[current]>>)
    /\ UNCHANGED kind
    /\ UNCHANGED loopVars
    /\ UNCHANGED execVars
    /\ UNCHANGED svcVars

Next ==
    \/ QueryAllBranches
    \/ FirstPassDone
    \/ BackoffElapsed
    \/ RetryNext
    \/ RetryResult
    \/ RoundEnd
    \/ QueryAllBranchesNoRetry
    \/ NoRetryReturn
    \/ \E b \in Branches : QueryBranch(b)
    \/ QueryBranchReturn
    \/ \E b \in Branches : Connect(b)
    \/ \E b \in Branches : Query(b)
    \/ \E b \in Branches : Close(b)

Spec == Init /\ [][Next]_vars

(* ------------------------------------------------------------------ *)
(* Claims                                                             *)
(* ------------------------------------------------------------------ *)

RetryCallDone == kind = "retry" /\ pc = "done" /\ ~thrown

\* The entries of the returned array that belong to branch b.
EntriesOf(b) == {i \in 1..Len(returned) : returned[i].branch = b}

\* C1: in every retry round each branch that was failed when the round began
\* is re-executed exactly once, and no branch is returned success=false
\* after fewer than 3 failed attempts.
C1_EveryFailedBranchRetriedEachRound ==
    /\ (kind = "retry" /\ pc \in {"backoff", "done"})
          => \A b \in roundFailed : roundRetries[b] = 1
    /\ RetryCallDone
          => \A i \in 1..Len(returned) :
                ~returned[i].success => fails[returned[i].branch] >= 3

\* C2: when every branch either fails on all its attempts or succeeds on its
\* first, the always-failing branches get exactly 3 attempts and the others
\* exactly 1.
C2_AttemptCounts ==
    (RetryCallDone /\ \A b \in Branches : fails[b] = attempts[b] \/ fails[b] = 0)
       => \A b \in Branches :
             attempts[b] = IF fails[b] = 0 THEN 1 ELSE 3

C2_Witness ==
    /\ RetryCallDone
    /\ fails["PTA"] = 3 /\ fails["CPT"] = 3
    /\ fails["PMB"] = 0 /\ fails["QTN"] = 0
    /\ attempts["PMB"] = 1 /\ attempts["QTN"] = 1

\* C3: a branch still failing when the call returns has an entry with
\* success=false carrying the error of its last executed attempt.
C3_LastErrorReturned ==
    RetryCallDone
       => \A b \in Branches :
             ~settled[b].success
                => \A i \in EntriesOf(b) :
                      /\ ~returned[i].success
                      /\ returned[i].error = settled[b].error

\* C4: a branch whose first attempt failed and whose later attempt succeeded
\* is returned with success=true and the data of the succeeding attempt.
C4_RecoveredBranchReturned ==
    RetryCallDone
       => \A b \in Branches :
             (fails[b] >= 1 /\ settled[b].success)
                => /\ EntriesOf(b) # {}
                   /\ \A i \in EntriesOf(b) :
                         /\ returned[i].success
                         /\ returned[i].data = rows[b]
                         /\ "error" \notin DOMAIN returned[i]

C4_Witness ==
    /\ RetryCallDone
    /\ fails["PTA"] = 1 /\ settled["PTA"].success
    /\ settled["PTA"].data = <<"row1">>
    /\ fails["CPT"] = 2 /\ settled["CPT"].success

\* C5: the returned array has one entry per configured branch, in the order
\* PMB, PTA, QTN, CPT.
C5_ConfigurationOrder ==
    (kind \in {"retry", "plain"} /\ pc = "done" /\ ~thrown)
       => /\ Len(returned) = Len(branchOrder)
          /\ \A i \in 1..Len(branchOrder) : returned[i].branch = branchOrder[i]

C5_Witness ==
    /\ RetryCallDone
    /\ fails["QTN"] = 2 /\ settled["QTN"].success
    /\ fails["PMB"] = 3
    /\ fails["CPT"] = 0

\* C6: within a call, a branch whose latest execution ended success=true is
\* not executed again.
C6_NoRetryAfterSuccess ==
    [][\A b \in Branches :
          (kind = "retry" /\ phase[b] = "settled" /\ settled[b].success)
             => attempts'[b] = attempts[b]]_vars

C6_Witness ==
    /\ RetryCallDone
    /\ retryCount = 2
    /\ attempts["CPT"] = 2 /\ settled["CPT"].success
    /\ attempts["PMB"] = 3

\* C7: while the retry of one branch is in flight, the retries of all the
\* branches that were failed when the round began have been started.
C7_RetriesConcurrent ==
    (kind = "retry" /\ pc = "await")
       => \A b \in roundFailed : roundRetries[b] >= 1

\* C8: queryAllBranches never throws, and when every execution of every
\* branch fails it returns four success=false entries.
C8_NeverThrows ==
    /\ ~thrown
    /\ (kind \in {"retry", "plain"} /\ pc = "done"
           /\ \A b \in Branches : fails[b] = attempts[b])
          => /\ Len(returned) = 4
             /\ \A i \in 1..Len(returned) : ~returned[i].success

C8_Witness ==
    /\ RetryCallDone
    /\ \A b \in Branches : fails[b] = 3
    /\ Len(returned) = 4

\* C9: every settled execution satisfies the QueryResult invariant: its
\* branch is the branch queried; success=true comes without an error and
\* with the rows the query returned; success=false comes with an error
\* message and no rows.
C9_QueryResultInvariant ==
    \A b \in Branches :
       phase[b] = "settled"
          => /\ settled[b].branch = b
             /\ settled[b].success
                   => /\ "error" \notin DOMAIN settled[b]
                      /\ settled[b].data = rows[b]
             /\ ~settled[b].success
                   => /\ "error" \in DOMAIN settled[b]
                      /\ settled[b].error \in ConnectErrors \cup QueryErrors \cup CloseErrors
                      /\ settled[b].data = <<>>

C9_Witness ==
    /\ kind = "retry"
    /\ phase["QTN"] = "settled" /\ settled["QTN"].success
    /\ settled["QTN"].data = <<"row1">>
    /\ phase["PMB"] = "settled" /\ ~settled["PMB"].success
    /\ settled["PMB"].error = "ECLOSE"

\* C10: every connection an execution opened is closed when the execution
\* has returned.
C10_ConnectionsClosed ==
    \A b \in Branches : ~InFlight(b) => open[b] = 0

\* C11: retry round r runs only after the r-th backoff wait, of
\* 500 * 2^(r-1) ms, has elapsed; without a failed branch there is no wait.
C11_BackoffBeforeEachRound ==
    kind = "retry"
       => /\ Len(delays) <= 2
          /\ \A r \in 1..Len(delays) : delays[r] = 500 * 2^(r - 1)
          /\ pc \in {"iter", "await"} => Len(delays) = retryCount
          /\ pc = "backoff" => /\ Len(delays) = retryCount - 1
                               /\ Len(failedBranches) > 0
          /\ \A b \in Branches : attempts[b] <= 1 + Len(delays)
          /\ delays # <<>> => \E b \in Branches : fails[b] >= 1

C11_Witness ==
    /\ kind = "retry"
    /\ pc = "await"
    /\ retryCount = 2
    /\ delays = <<500, 1000>>
    /\ attempts[current] = 3

(* ------------------------------------------------------------------ *)
(* The permission filter applied to bounded inputs                    *)
(* ------------------------------------------------------------------ *)

\* The longest record list handed to the filter.
MaxRecords == 2

SeqsUpTo(S, n) == UNION {[1..k -> S] : k \in 0..n}

\* Cost codes: "PMB-M1", the same in lower case, the same without its branch
\* prefix, and another code.
CodeA == <<"P", "M", "B", "-", "M", "1">>
CodeALower == <<"p", "m", "b", "-", "m", "1">>
CodeAPlain == <<"M", "1">>
CodeB == <<"E", "2">>

FilterCodes == {CodeA, CodeALower, CodeAPlain, CodeB}

FilterGroups == {"Electrical", "Plumbing"}

\* The records the filter is given: branch, group and cost code of a
\* purchase record.
FilterItems ==
    [branch : {"PMB", "PTA"}, group : FilterGroups, costCode : FilterCodes]

\* Stored and in-memory forms of assignedGroups.
AssignedGroupsValues ==
    {JsNull, JsArray(<<>>), JsString(JsonStringify(<<>>)),
     JsArray(<<"Electrical">>), JsString(JsonStringify(<<"Electrical">>))}

\* Stored and in-memory forms of assignedCostCodes.
AssignedCodesValues ==
    {JsNull, JsArray(<<>>), JsString(JsonStringify(<<>>)),
     JsArray(<<CodeA>>), JsString(JsonStringify(<<CodeA>>)),
     JsArray(<<CodeA, CodeB>>)}

FilterUsers ==
    [role : {"ADMIN", "User"}, branch : {"ALL", "PMB", "PTA"},
     assignedGroups : AssignedGroupsValues,
     assignedCostCodes : AssignedCodesValues]

InitFilter ==
    /\ DbInit
    /\ CacheIdle
    /\ DataIdle
    /\ ExtraIdle
    /\ fpc = "call"
    /\ fData \in SeqsUpTo(FilterItems, MaxRecords)
    /\ fUser \in FilterUsers
    /\ fResult = <<>>

\* records = filterDataByPermissions(allRecords, req.user)
FilterDataByPermissions ==
    /\ fpc = "call"
    /\ fpc' = "returned"
    /\ fResult' = filterDataByPermissions(fData, fUser)
    /\ UNCHANGED <<fData, fUser>>
    /\ UNCHANGED <<dbVars, cacheVars, dataVars, extraVars>>

NextFilter == FilterDataByPermissions

SpecFilter == InitFilter /\ [][NextFilter]_vars

\* The list a user's assignedGroups / assignedCostCodes value stands for.
AssignedList(v) ==
    IF v.kind = "array" THEN v.items
    ELSE IF v.kind = "string" /\ v.text # <<>> THEN JsonParse(v.text)
    ELSE <<>>

\* The records of fData the user's branch admits.
BranchScoped ==
    IF fUser.branch = "ALL" THEN fData
    ELSE SelectSeq(fData, LAMBDA item : item.branch = fUser.branch)

C13_OrAcrossRestrictions ==
    (/\ fpc = "returned"
     /\ fUser.role # "ADMIN"
     /\ AssignedList(fUser.assignedGroups) # <<>>
     /\ AssignedList(fUser.assignedCostCodes) # <<>>)
       => fResult =
            SelectSeq(BranchScoped,
                      LAMBDA item :
                         \/ item.group \in Range(AssignedList(fUser.assignedGroups))
                         \/ item.costCode \in Range(AssignedList(fUser.assignedCostCodes)))

C13_Witness ==
    /\ fpc = "returned"
    /\ fUser.role = "User"
    /\ fUser.assignedGroups = JsString(JsonStringify(<<"Electrical">>))
    /\ fUser.assignedCostCodes = JsString(JsonStringify(<<CodeA>>))
    /\ Len(fData) = 2
    /\ fData[1].group = "Electrical" /\ fData[1].costCode = CodeB
    /\ fData[2].group = "Plumbing" /\ fData[2].costCode = CodeA
    /\ fResult = fData

\* C14: a non-admin whose assignedCostCodes is an explicit empty list and who
\* has no group restrictions gets the empty list.
C14_ExplicitDeny ==
    (/\ fpc = "returned"
     /\ fUser.role # "ADMIN"
     /\ fUser.assignedCostCodes \in {JsArray(<<>>), JsString(<<"[", "]">>)}
     /\ AssignedList(fUser.assignedGroups) = <<>>)
       => fResult = <<>>

C14_Witness ==
    /\ fpc = "returned"
    /\ fUser.role = "User"
    /\ fUser.branch = "ALL"
    /\ fUser.assignedCostCodes = JsString(<<"[", "]">>)
    /\ fUser.assignedGroups = JsNull
    /\ Len(fData) = 2
    /\ fResult = <<>>

\* C15: for a non-admin with cost-code restrictions every retained record
\* has an assigned group or a cost code that is character for character
\* one of the assigned codes.
C15_ExactCodeMatching ==
    (/\ fpc = "returned"
     /\ fUser.role # "ADMIN"
     /\ AssignedList(fUser.assignedCostCodes) # <<>>)
       => \A i \in 1..Len(fResult) :
             \/ fResult[i].group \in Range(AssignedList(fUser.assignedGroups))
             \/ fResult[i].costCode \in Range(AssignedList(fUser.assignedCostCodes))

C15_Witness ==
    /\ fpc = "returned"
    /\ fUser.role = "User"
    /\ fUser.branch = "ALL"
    /\ fUser.assignedCostCodes = JsArray(<<CodeA>>)
    /\ fUser.assignedGroups = JsNull
    /\ Len(fData) = 2
    /\ fData[1].costCode = CodeALower
    /\ fData[2].costCode = CodeAPlain
    /\ normalize(fData[1].costCode) = normalize(CodeA)
    /\ normalize(fData[2].costCode) = normalize(CodeA)
    /\ fResult = <<>>

\* C16: a non-admin with neither restriction configured gets exactly the
\* records its branch admits.
C16_NoRestrictionBranchOnly ==
    (/\ fpc = "returned"
     /\ fUser.role # "ADMIN"
     /\ fUser.assignedCostCodes = JsNull
     /\ fUser.assignedGroups = JsNull)
       => fResult = BranchScoped

C16_Witness ==
    /\ fpc = "returned"
    /\ fUser.role = "User"
    /\ fUser.branch = "PTA"
    /\ fUser.assignedCostCodes = JsNull
    /\ fUser.assignedGroups = JsNull
    /\ Len(fData) = 2
    /\ fData[1].branch = "PMB"
    /\ fResult = <<fData[2]>>

(* ------------------------------------------------------------------ *)
(* CacheService                                                       *)
(* ------------------------------------------------------------------ *)

\* Strings compared as Array.prototype.sort compares them by default:
\* by UTF-16 code units, a proper prefix first.
RECURSIVE StringLess(_, _)
StringLess(a, b) ==
    IF b = <<>> THEN FALSE
    ELSE IF a = <<>> THEN TRUE
    ELSE IF CodeUnit(Head(a)) # CodeUnit(Head(b))
         THEN CodeUnit(Head(a)) < CodeUnit(Head(b))
         ELSE StringLess(Tail(a), Tail(b))

RECURSIVE Insert(_, _)
Insert(x, sorted) ==
    IF sorted = <<>> THEN <<x>>
    ELSE IF StringLess(x, Head(sorted)) THEN <<x>> \o sorted
    ELSE <<Head(sorted)>> \o Insert(x, Tail(sorted))

RECURSIVE Sort(_)
Sort(keys) ==
    IF keys = <<>> THEN <<>> ELSE Insert(Head(keys), Sort(Tail(keys)))

\* Object.keys(filters): the keys in insertion order.
ObjectKeys(filters) == [i \in 1..Len(filters) |-> filters[i].key]

SortedKeys_Unsorted(filters) == ObjectKeys(filters)

\* Object.keys(filters).sort()
SortedKeys(filters) == Sort(ObjectKeys(filters))

\* filters[key]
ValueOf(filters, key) ==
    filters[CHOOSE i \in 1..Len(filters) : filters[i].key = key].value

RECURSIVE Join(_, _)
Join(parts, sep) ==
    IF parts = <<>> THEN <<>>
    ELSE IF Len(parts) = 1 THEN parts[1]
    ELSE parts[1] \o sep \o Join(Tail(parts), sep)

\* generateKey(prefix, filters): `${prefix}:${sortedFilters}`
generateKey(prefix, filters) ==
    LET keys == SortedKeys(filters)
        pairs == [i \in 1..Len(keys) |->
                    keys[i] \o <<"=">> \o ValueOf(filters, keys[i])]
    IN  prefix \o <<":">> \o Join(pairs, <<"&">>)

Has(key) == key \in DOMAIN cache

Expired_Never(item) == FALSE

\* item.expiresAt && Date.now() > item.expiresAt
Expired(item) == item.expiresAt # 0 /\ now > item.expiresAt

\* Map.prototype.delete
MapDelete(map, keys) == [k \in DOMAIN map \ keys |-> map[k]]

\* Map.prototype.set
MapSet(map, key, item) ==
    [k \in DOMAIN map \cup {key} |-> IF k = key THEN item ELSE map[k]]

\* The keys clearPattern deletes.
KeysToDelete(pattern) == {k \in DOMAIN cache : StartsWith(k, pattern)}

\* The longest time the clock runs, in seconds.
MaxClock == 2700

\* The clock advances between calls, in milliseconds.
TickSteps == {900000}

\* The TTLs the data service passes to set, in seconds.
TtlSeconds == {300, 1800}

RecordsAll == <<"r", "e", "c", "o", "r", "d", "s", ":", "a", "l", "l">>
RecordsPMB == <<"r", "e", "c", "o", "r", "d", "s", ":", "P", "M", "B">>
RecordsPattern == <<"r", "e", "c", "o", "r", "d", "s", ":">>

StartDateKey == <<"s", "t", "a", "r", "t", "D", "a", "t", "e">>
EndDateKey == <<"e", "n", "d", "D", "a", "t", "e">>

Date1 == <<"2", "0", "2", "4", "-", "0", "1", "-", "0", "1">>
Date2 == <<"2", "0", "2", "4", "-", "1", "2", "-", "3", "1">>

KeyPrefixes == {RecordsAll, RecordsPMB}

FilterKeys == {StartDateKey, EndDateKey}

\* Filter objects as their properties in insertion order.
FilterMaps ==
    {f \in SeqsUpTo({[key |-> StartDateKey, value |-> Date1],
                     [key |-> EndDateKey, value |-> Date2]}, 2) :
        \A i, j \in 1..Len(f) : i # j => f[i].key # f[j].key}

CacheKeys ==
    {generateKey(RecordsAll, <<>>),
     generateKey(RecordsPMB, <<[key |-> StartDateKey, value |-> Date1]>>)}

CacheValues == {JsArray(<<>>), JsArray(<<"row1">>)}

ClearPatterns == {RecordsPattern, RecordsPMB}

InitCache == DbInit /\ FilterIdle /\ CacheIdle /\ DataIdle /\ ExtraIdle

GenerateKey(prefix, filters) ==
    /\ call' = [name |-> "generateKey", prefix |-> prefix, filters |-> filters,
                result |-> generateKey(prefix, filters)]
    /\ UNCHANGED <<cache, now>>
    /\ UNCHANGED <<dbVars, filterVars, dataVars, extraVars>>

CacheGet(key) ==
    /\ IF ~Has(key)
       THEN /\ call' = [name |-> "get", key |-> key, path |-> "absent",
                        result |-> JsNull]
            /\ UNCHANGED cache
       ELSE IF Expired(cache[key])
       THEN /\ cache' = MapDelete(cache, {key})
            /\ call' = [name |-> "get", key |-> key, path |-> "expired",
                        result |-> JsNull]
       ELSE /\ call' = [name |-> "get", key |-> key, path |-> "hit",
                        result |-> cache[key].value]
            /\ UNCHANGED cache
    /\ UNCHANGED now

Get(key) == CacheGet(key) /\ UNCHANGED <<dbVars, filterVars, dataVars, extraVars>>

CacheSet(key, value, ttlSeconds) ==
    /\ cache' = MapSet(cache, key,
                       [value |-> value, expiresAt |-> now + ttlSeconds * 1000])
    /\ call' = [name |-> "set", key |-> key, value |-> value,
                ttlSeconds |-> ttlSeconds]
    /\ UNCHANGED now

Set(key, value, ttlSeconds) ==
    CacheSet(key, value, ttlSeconds) /\ UNCHANGED <<dbVars, filterVars, dataVars, extraVars>>

ClearPattern(pattern) ==
    /\ cache' = MapDelete(cache, KeysToDelete(pattern))
    /\ call' = [name |-> "clearPattern", pattern |-> pattern,
                result |-> Cardinality(KeysToDelete(pattern))]
    /\ UNCHANGED now
    /\ UNCHANGED <<dbVars, filterVars, dataVars, extraVars>>

ClearAll ==
    /\ cache' = MapDelete(cache, DOMAIN cache)
    /\ call' = [name |-> "clearAll", result |-> Cardinality(DOMAIN cache)]
    /\ UNCHANGED now
    /\ UNCHANGED <<dbVars, filterVars, dataVars, extraVars>>

\* Time passes between two calls.
Tick(dt) ==
    /\ now + dt <= MaxClock * 1000
    /\ now' = now + dt
    /\ call' = [name |-> "tick"]
    /\ UNCHANGED cache
    /\ UNCHANGED <<dbVars, filterVars, dataVars, extraVars>>

NextCache ==
    \/ \E prefix \in KeyPrefixes, filters \in FilterMaps : GenerateKey(prefix, filters)
    \/ \E key \in CacheKeys : Get(key)
    \/ \E key \in CacheKeys, value \in CacheValues, ttl \in TtlSeconds :
          Set(key, value, ttl)
    \/ \E pattern \in ClearPatterns : ClearPattern(pattern)
    \/ ClearAll
    \/ \E dt \in TickSteps : Tick(dt)

SpecCache == InitCache /\ [][NextCache]_vars

\* C17: set stores v with expiry now + ttl; a get before the expiry returns
\* v; a get after the expiry returns a miss and removes the entry; until
\* then the passing of time leaves an expired entry in the store.
C17_LazyExpiry ==
    [][/\ call'.name = "set"
          => /\ call'.key \in DOMAIN cache'
             /\ cache'[call'.key].value = call'.value
             /\ cache'[call'.key].expiresAt = now + call'.ttlSeconds * 1000
       /\ (call'.name = "get" /\ call'.key \in DOMAIN cache)
          => /\ now < cache[call'.key].expiresAt
                => /\ call'.result = cache[call'.key].value
                   /\ cache' = cache
             /\ now > cache[call'.key].expiresAt
                => /\ call'.result = JsNull
                   /\ call'.key \notin DOMAIN cache'
       /\ (call'.name = "get" /\ call'.key \notin DOMAIN cache)
          => call'.result = JsNull /\ cache' = cache
       /\ call'.name = "get"
          => \A k \in DOMAIN cache \ {call'.key} :
                k \in DOMAIN cache' /\ cache'[k] = cache[k]
       /\ call'.name \in {"tick", "generateKey"} => cache' = cache
      ]_vars

\* An expired entry was just removed by a get while another expired entry,
\* not read since, is still in the store.
C17_Witness ==
    /\ call.name = "get"
    /\ call.path = "expired"
    /\ call.key \notin DOMAIN cache
    /\ \E k \in DOMAIN cache : now > cache[k].expiresAt

\* The key=value pairs of a filter object, in ascending order of their keys.
PairsAscending(filters) ==
    LET S == Range(filters)
    IN  CHOOSE p \in [1..Cardinality(S) -> S] :
           /\ Range(p) = S
           /\ \A i \in 1..(Len(p) - 1) : StringLess(p[i].key, p[i + 1].key)

\* C18: the key generated for a filter object is the key generated for
\* every filter object with the same pairs in another insertion order, and
\* it is prefix ":" followed by the key=value pairs in ascending key order
\* joined by "&".
C18_KeyOrderIndependent ==
    call.name = "generateKey"
       => /\ \A g \in FilterMaps :
                Range(g) = Range(call.filters)
                   => generateKey(call.prefix, g) = call.result
          /\ call.result =
                call.prefix \o <<":">>
                   \o Join([i \in 1..Len(call.filters) |->
                              PairsAscending(call.filters)[i].key \o <<"=">>
                                 \o PairsAscending(call.filters)[i].value],
                           <<"&">>)

C18_Witness ==
    /\ call.name = "generateKey"
    /\ call.prefix = RecordsAll
    /\ call.filters = <<[key |-> StartDateKey, value |-> Date1],
                        [key |-> EndDateKey, value |-> Date2]>>
    /\ call.result = RecordsAll \o <<":">> \o EndDateKey \o <<"=">> \o Date2
                        \o <<"&">> \o StartDateKey \o <<"=">> \o Date1

(* ------------------------------------------------------------------ *)
(* DataService: getPurchaseRecords and _processRecords                *)
(* ------------------------------------------------------------------ *)

\* cacheService.set(cacheKey, records, 300)
RecordsTtl == 300

\* record.group of a row whose GROUP column is NULL.
NoGroup == "null"

\* " pta e2": a PTA cost code in lower case, with a space as separator
\* and surrounded by white space.
CodePtaSpace == <<" ", "p", "t", "a", " ", "e", "2", " ">>

RawRecord(costCode, group) == [costCode |-> costCode, group |-> group]

\* The rows the view of each branch database holds.
BranchRows ==
    [b \in Branches |->
        CASE b = "PMB" -> <<RawRecord(CodeA, "Electrical"),
                            RawRecord(CodeAPlain, NoGroup)>>
          [] b = "PTA" -> <<RawRecord(CodePtaSpace, "Plumbing")>>
          [] b = "QTN" -> <<RawRecord(CodeALower, "Electrical")>>
          [] b = "CPT" -> <<RawRecord(Null, "Plumbing")>>]

\* What one execution against branch b resolves with.
BranchOutcomes(b) ==
    {ExecSuccess(b, <<>>), ExecSuccess(b, BranchRows[b])}
       \cup {ExecFailure(b, err) : err \in ConnectErrors}

\* The arrays queryAllBranches resolves with: one entry per configured
\* branch, in configuration order.
AllBranchResults ==
    {<<pmb, pta, qtn, cpt>> :
        pmb \in BranchOutcomes("PMB"), pta \in BranchOutcomes("PTA"),
        qtn \in BranchOutcomes("QTN"), cpt \in BranchOutcomes("CPT")}

branchMap ==
    [b \in Branches |->
        CASE b = "PMB" -> "Pietermaritzburg"
          [] b = "PTA" -> "Pretoria"
          [] b = "QTN" -> "Queenstown"
          [] b = "CPT" -> "Cape Town"]

\* costCodeService.extractBranchFromCode(record.costCode) || result.branch
OwnedByBranch(record, result) ==
    IF extractBranchFromCode(record.costCode) = NoBranch
    THEN result.branch
    ELSE extractBranchFromCode(record.costCode)

\* The object _processRecords pushes for one row of one result.
ProcessRecord(record, result) ==
    [costCode |-> record.costCode,
     group |-> record.group,
     branch |-> OwnedByBranch(record, result),
     branchName |-> branchMap[OwnedByBranch(record, result)],
     sourceDatabase |-> result.branch,
     category |-> IF record.group = NoGroup THEN "Uncategorized" ELSE record.group,
     status |-> "Completed"]

RECURSIVE Flatten(_)
Flatten(seqs) ==
    IF seqs = <<>> THEN <<>> ELSE Head(seqs) \o Flatten(Tail(seqs))

\* result.success && result.data
Processed(result) == result.success

\* _processRecords throws when extractBranchFromCode does.
ProcessThrows(resultArray) ==
    \E i \in 1..Len(resultArray) :
       /\ Processed(resultArray[i])
       /\ \E j \in 1..Len(resultArray[i].data) :
             extractBranchFromCode(resultArray[i].data[j].costCode) = TypeError

\* _processRecords(results), when it does not throw
processRecords(resultArray) ==
    Flatten([i \in 1..Len(resultArray) |->
               IF Processed(resultArray[i])
               THEN [j \in 1..Len(resultArray[i].data) |->
                       ProcessRecord(resultArray[i].data[j], resultArray[i])]
               ELSE <<>>])

\* `records:${branch || 'all'}`
RecordsPrefix(branch) ==
    IF branch = NoBranch THEN RecordsAll
    ELSE RecordsPattern
            \o BRANCH_PREFIXES[CHOOSE i \in 1..Len(BRANCH_PREFIXES) :
                                  BRANCH_PREFIXES[i].code = branch].text

\* The branch arguments getPurchaseRecords is called with.
DataBranches == {NoBranch, "PMB"}

\* What the awaited database manager call resolves with.
FetchResults(branch) ==
    IF branch = NoBranch THEN AllBranchResults
    ELSE {<<r>> : r \in BranchOutcomes(branch)}

AllFetchResults == UNION {FetchResults(branch) : branch \in DataBranches}

\* The filters of a request that gives no date range.
DataFilters == {<<>>}

InitData == DbInit /\ FilterIdle /\ CacheIdle /\ DataIdle /\ ExtraIdle

\* getPurchaseRecords up to its first await: the cache key, the cache
\* lookup, and on a hit the return of the cached records.
GetPurchaseRecords(branch, filters) ==
    /\ gpc = "idle"
    /\ CacheGet(generateKey(RecordsPrefix(branch), filters))
    /\ gBranch' = branch
    /\ gKey' = generateKey(RecordsPrefix(branch), filters)
    /\ gResult' = <<>>
    /\ IF Truthy(call'.result)
       THEN gpc' = "returned" /\ gReturn' = call'.result.items
       ELSE gpc' = "fetching" /\ gReturn' = <<>>
    /\ UNCHANGED <<dbVars, filterVars, extraVars>>

\* The database manager resolves; the rows are processed, cached and
\* returned, or the TypeError is rethrown.
FetchDone(result) ==
    /\ gpc = "fetching"
    /\ result \in FetchResults(gBranch)
    /\ gResult' = result
    /\ IF ProcessThrows(result)
       THEN /\ gpc' = "threw"
            /\ UNCHANGED <<gReturn, cacheVars>>
       ELSE /\ CacheSet(gKey, JsArray(processRecords(result)), RecordsTtl)
            /\ gpc' = "returned"
            /\ gReturn' = processRecords(result)
    /\ UNCHANGED <<gBranch, gKey>>
    /\ UNCHANGED <<dbVars, filterVars, extraVars>>

\* The route handler has its answer; the next request can come.
RequestDone ==
    /\ gpc \in {"returned", "threw"}
    /\ gpc' = "idle"
    /\ gBranch' = NoBranch
    /\ gKey' = <<>>
    /\ gResult' = <<>>
    /\ gReturn' = <<>>
    /\ UNCHANGED <<dbVars, filterVars, cacheVars, extraVars>>

NextData ==
    \/ \E branch \in DataBranches, filters \in DataFilters :
          GetPurchaseRecords(branch, filters)
    \/ \E result \in AllFetchResults : FetchDone(result)
    \/ RequestDone
    \/ \E dt \in TickSteps : Tick(dt)

SpecData == InitData /\ [][NextData]_vars

\* C19: a fetch that ends with a branch still success=false does not
\* store its merged list in the cache.
C19_NoCacheOfPartialFetch ==
    (gpc = "returned" /\ \E i \in 1..Len(gResult) : ~gResult[i].success)
       => gKey \notin DOMAIN cache

Count(seq, x) == Cardinality({i \in 1..Len(seq) : seq[i] = x})

\* The branch named by the prefix of a cost code: PMB, PTA, QTN or CPT
\* followed by "-" or " ", in any case, after trimming; else the source.
PrefixBranch(costCode, source) ==
    IF \E i \in 1..Len(BRANCH_PREFIXES), sep \in {"-", " "} :
          StartsWith(ToUpperCase(Trim(costCode)), BRANCH_PREFIXES[i].text \o <<sep>>)
    THEN BRANCH_PREFIXES[
            CHOOSE i \in 1..Len(BRANCH_PREFIXES) :
               \E sep \in {"-", " "} :
                  StartsWith(ToUpperCase(Trim(costCode)),
                             BRANCH_PREFIXES[i].text \o <<sep>>)].code
    ELSE source

\* The rows a merged list is to hold: each row of each success=true result,
\* tagged with its source and its owning branch.
ExpectedRows(resultArray) ==
    Flatten([i \in 1..Len(resultArray) |->
               IF resultArray[i].success
               THEN [j \in 1..Len(resultArray[i].data) |->
                       [costCode |-> resultArray[i].data[j].costCode,
                        group |-> resultArray[i].data[j].group,
                        sourceDatabase |-> resultArray[i].branch,
                        branch |-> PrefixBranch(resultArray[i].data[j].costCode,
                                                resultArray[i].branch)]]
               ELSE <<>>])

Tagged(records) ==
    [i \in 1..Len(records) |->
        [costCode |-> records[i].costCode, group |-> records[i].group,
         sourceDatabase |-> records[i].sourceDatabase,
         branch |-> records[i].branch]]

\* C20: from every set of branch results a merged list is built that
\* holds each row of each success=true result exactly once and nothing
\* else, each with sourceDatabase the fetching branch and branch the prefix
\* of its cost code, or the fetching branch when it has no prefix.
C20_MergedRowsTagged ==
    (gpc \in {"returned", "threw"} /\ gResult # <<>>)
       => /\ gpc = "returned"
          /\ \A x \in Range(Tagged(gReturn)) \cup Range(ExpectedRows(gResult)) :
                Count(Tagged(gReturn), x) = Count(ExpectedRows(gResult), x)

\* C21: a fetch whose successful results hold a row without cost code or
\* without group does not make getPurchaseRecords throw, and every such row
\* is in the records returned, with the other rows of the fetch.
C21_MissingFieldsKept ==
    gResult # <<>>
       => /\ gpc # "threw"
          /\ gpc = "returned"
                => \A i \in 1..Len(gResult) :
                      gResult[i].success
                         => \A j \in 1..Len(gResult[i].data) :
                               \E k \in 1..Len(gReturn) :
                                  /\ gReturn[k].sourceDatabase = gResult[i].branch
                                  /\ gReturn[k].costCode = gResult[i].data[j].costCode
                                  /\ gReturn[k].group = gResult[i].data[j].group

(* ------------------------------------------------------------------ *)
(* CostCodeService applied to bounded inputs                          *)
(* ------------------------------------------------------------------ *)

\* The most pieces a cost code handed to normalize is built from.
MaxTokens == 5

\* The pieces: branch prefixes in either case, separators, and other
\* characters.
CodeTokens ==
    {<<"P", "M", "B">>, <<"P", "T", "A">>, <<"p", "m", "b">>,
     <<"-">>, <<" ">>, <<"x">>}

\* The cost codes normalize is applied to: null, and every string of up
\* to MaxTokens pieces.
NormalizeInputs ==
    {Null} \cup {Flatten(pieces) : pieces \in SeqsUpTo(CodeTokens, MaxTokens)}

InitNormalize ==
    /\ cpc = "call"
    /\ cFn = "normalize"
    /\ cArg \in NormalizeInputs
    /\ cResult = <<>>

\* costCodeService.normalize(costCode)
Normalize ==
    /\ cpc = "call"
    /\ cFn = "normalize"
    /\ cpc' = "returned"
    /\ cResult' = normalize(cArg)
    /\ UNCHANGED <<cFn, cArg>>
    /\ UNCHANGED codeFrame

\* C22: normalize applied to a normalized code returns it unchanged.
C22_NormalizeIdempotent ==
    (cpc = "returned" /\ cFn = "normalize") => normalize(cResult) = cResult

\* "PMB-PTA-x": two branch prefixes; only the first is stripped.
C22_Witness ==
    /\ cpc = "returned"
    /\ cFn = "normalize"
    /\ cArg = <<"P", "M", "B", "-", "P", "T", "A", "-", "x">>
    /\ cResult = <<"P", "T", "A", "X">>

Min2(a, b) == IF a <= b THEN a ELSE b

MinOf(S) == CHOOSE x \in S : \A y \in S : x <= y

\* One row of the matrix: matrix[i], from prev = matrix[i - 1] and
\* c = str2[i - 1]. Position j + 1 of a row holds matrix[.][j]. The cell
\* matrix[i][j] is the least of matrix[i][j - 1] + 1 and
\* up[j] = min(matrix[i - 1][j] + 1, matrix[i - 1][j - 1] + cost); unrolled
\* along the row, the least of up[k] + (j - k) over k <= j, with up[0] = i.
LevRow(prev, c, str1, i) ==
    LET up == [k \in 0..Len(str1) |->
                 IF k = 0 THEN i
                 ELSE Min2(prev[k + 1] + 1,
                           prev[k] + (IF str1[k] = c THEN 0 ELSE 1))]
    IN  <<>> \o [j \in 1..(Len(str1) + 1) |->
                   MinOf({up[k] + ((j - 1) - k) : k \in 0..(j - 1)})]

RECURSIVE LevRows(_, _, _, _)
LevRows(prev, str1, str2, i) ==
    IF i > Len(str2) THEN prev
    ELSE LET row == LevRow(prev, str2[i], str1, i)
         IN  IF Len(row) = Len(prev) THEN LevRows(row, str1, str2, i + 1)
             ELSE row

\* levenshteinDistance(str1, str2): matrix[len2][len1]
levenshteinDistance(str1, str2) ==
    LevRows([j \in 1..(Len(str1) + 1) |-> j - 1], str1, str2, 1)[Len(str1) + 1]

\* A similarity, 1 - distance / maxLen, as the fraction num / den.
Fraction(num, den) == [num |-> num, den |-> den]

\* calculateSimilarity(str1, str2)
calculateSimilarity(str1, str2) ==
    LET maxLen == IF Len(str1) >= Len(str2) THEN Len(str1) ELSE Len(str2)
    IN  IF maxLen = 0 THEN Fraction(1, 1)
        ELSE Fraction(maxLen - levenshteinDistance(str1, str2), maxLen)

\* const SIMILARITY_THRESHOLD = 0.85
SIMILARITY_THRESHOLD == Fraction(85, 100)

Exceeds_OrEqual(similarity, bestSimilarity) ==
    similarity.num * bestSimilarity.den >= bestSimilarity.num * similarity.den

\* similarity > bestSimilarity
Exceeds(similarity, bestSimilarity) ==
    similarity.num * bestSimilarity.den > bestSimilarity.num * similarity.den

\* The first loop of findBestMatch: the index of the first assigned code
\* with the record code's normalized form, 0 when there is none.
ExactMatch(normalized, assignedCodes) ==
    IF \E i \in 1..Len(assignedCodes) : normalize(assignedCodes[i]) = normalized
    THEN CHOOSE i \in 1..Len(assignedCodes) :
            /\ normalize(assignedCodes[i]) = normalized
            /\ \A j \in 1..(i - 1) : normalize(assignedCodes[j]) # normalized
    ELSE 0

\* The second loop of findBestMatch, from the i-th assigned code on.
RECURSIVE FuzzyMatch(_, _, _, _, _)
FuzzyMatch(normalized, assignedCodes, i, bestMatch, bestSimilarity) ==
    IF i > Len(assignedCodes) THEN bestMatch
    ELSE LET similarity ==
                calculateSimilarity(normalized, normalize(assignedCodes[i]))
         IN  IF Exceeds(similarity, bestSimilarity)
             THEN FuzzyMatch(normalized, assignedCodes, i + 1,
                             assignedCodes[i], similarity)
             ELSE FuzzyMatch(normalized, assignedCodes, i + 1,
                             bestMatch, bestSimilarity)

\* findBestMatch(recordCode, assignedCodes)
findBestMatch(recordCode, assignedCodes) ==
    LET normalized == normalize(recordCode)
        exact == ExactMatch(normalized, assignedCodes)
    IN  IF exact # 0 THEN assignedCodes[exact]
        ELSE FuzzyMatch(normalized, assignedCodes, 1, Null, SIMILARITY_THRESHOLD)

\* The most assigned codes handed to findBestMatch.
MaxAssigned == 2

\* A code of 20 characters, and the same with its last one, two and three
\* characters replaced: similarity 0.95, 0.9 and 0.85.
Code20 == <<"A", "B", "C", "D", "E", "F", "G", "H", "I", "J",
            "K", "L", "M", "N", "O", "P", "Q", "R", "S", "T">>
Code20Off1 == SubSeq(Code20, 1, 19) \o <<"1">>
Code20Off2 == SubSeq(Code20, 1, 18) \o <<"1", "2">>
Code20Off3 == SubSeq(Code20, 1, 17) \o <<"1", "2", "3">>

\* Two codes with the same normalized form, far from the others.
CodeElec1 == <<"P", "M", "B", "-", "E", "L", "E", "C", "0", "0", "1">>
CodeElec1Lower == <<"e", "l", "e", "c", "0", "0", "1">>

MatchCodes ==
    {Code20, Code20Off1, Code20Off2, Code20Off3, CodeElec1, CodeElec1Lower}

InitFindBestMatch ==
    /\ cpc = "call"
    /\ cFn = "findBestMatch"
    /\ cArg \in [recordCode : MatchCodes \cup {Null},
                 assignedCodes : SeqsUpTo(MatchCodes, MaxAssigned)]
    /\ cResult = <<>>

\* costCodeService.findBestMatch(record.costCode, assignedCodes)
FindBestMatch ==
    /\ cpc = "call"
    /\ cFn = "findBestMatch"
    /\ cpc' = "returned"
    /\ cResult' = findBestMatch(cArg.recordCode, cArg.assignedCodes)
    /\ UNCHANGED <<cFn, cArg>>
    /\ UNCHANGED codeFrame

\* The similarity of the record code of the call to its i-th assigned code.
SimilarityTo(i) ==
    calculateSimilarity(normalize(cArg.recordCode),
                        normalize(cArg.assignedCodes[i]))

Smallest(S) == CHOOSE i \in S : \A j \in S : i <= j

DedupKeeps_Unseen(normalized, seen) == normalized \notin seen

\* normalized && !seen.has(normalized)
DedupKeeps(normalized, seen) == normalized # <<>> /\ normalized \notin seen

\* costCodes.forEach(...), from the i-th code on.
RECURSIVE DedupLoop(_, _, _, _)
DedupLoop(costCodes, i, seen, unique) ==
    IF i > Len(costCodes) THEN unique
    ELSE IF DedupKeeps(normalize(costCodes[i]), seen)
         THEN DedupLoop(costCodes, i + 1, seen \cup {normalize(costCodes[i])},
                        Append(unique, costCodes[i]))
         ELSE DedupLoop(costCodes, i + 1, seen, unique)

\* deduplicateCodes(costCodes): unique.sort()
deduplicateCodes(costCodes) == Sort(DedupLoop(costCodes, 1, {}, <<>>))

\* The longest list handed to deduplicateCodes.
MaxCodes == 4

\* Codes with the same normalized form, another code, and codes whose
\* normalized form is empty.
DedupCodes == {CodeA, CodeALower, CodeAPlain, CodeB, <<"-">>, <<>>}

InitDeduplicateCodes ==
    /\ cpc = "call"
    /\ cFn = "deduplicateCodes"
    /\ cArg \in SeqsUpTo(DedupCodes, MaxCodes)
    /\ cResult = <<>>

\* costCodeService.deduplicateCodes(costCodes)
DeduplicateCodes ==
    /\ cpc = "call"
    /\ cFn = "deduplicateCodes"
    /\ cpc' = "returned"
    /\ cResult' = deduplicateCodes(cArg)
    /\ UNCHANGED <<cFn, cArg>>
    /\ UNCHANGED codeFrame

\* The positions of the input whose code is the first with its normalized
\* form.
FirstOfForm(costCodes) ==
    {i \in 1..Len(costCodes) :
        \A j \in 1..(i - 1) : normalize(costCodes[j]) # normalize(costCodes[i])}

StrictlyAscending(codes) ==
    \A i \in 1..(Len(codes) - 1) : StringLess(codes[i], codes[i + 1])

\* C24 as stated: for each distinct normalized form occurring in the input,
\* the empty form included, the result holds exactly the first input code
\* with that form, text unchanged, and no other code, in ascending order of
\* the original text.
C24_FirstOfEveryForm ==
    (cpc = "returned" /\ cFn = "deduplicateCodes")
       => /\ Range(cResult) = {cArg[i] : i \in FirstOfForm(cArg)}
          /\ Len(cResult) = Cardinality(FirstOfForm(cArg))
          /\ StrictlyAscending(cResult)

\* C24 (amended): for each distinct non-empty normalized form occurring in
\* the input, the result holds exactly the first input code with that form,
\* text unchanged, and no other code, in ascending order of the original
\* text; every code whose normalized form is empty is discarded.
C24_FirstOfEveryNonEmptyForm ==
    (cpc = "returned" /\ cFn = "deduplicateCodes")
       => /\ Range(cResult) =
                {cArg[i] : i \in {k \in FirstOfForm(cArg) : normalize(cArg[k]) # <<>>}}
          /\ Len(cResult) =
                Cardinality({k \in FirstOfForm(cArg) : normalize(cArg[k]) # <<>>})
          /\ StrictlyAscending(cResult)

\* A duplicate form, a code with an empty form, and an input out of order.
C24_Witness ==
    /\ cpc = "returned"
    /\ cFn = "deduplicateCodes"
    /\ cArg = <<CodeA, <<"-">>, CodeB, CodeAPlain>>
    /\ cResult = <<CodeB, CodeA>>

\* normalized.split('-')[0]
RECURSIVE SplitFirst(_, _)
SplitFirst(s, sep) ==
    IF s = <<>> \/ Head(s) = sep THEN <<>>
    ELSE <<Head(s)>> \o SplitFirst(Tail(s), sep)

TokenMNT == <<"M", "N", "T">>
TokenELEC == <<"E", "L", "E", "C">>
TokenPLUMB == <<"P", "L", "U", "M", "B">>
TokenHVAC == <<"H", "V", "A", "C">>
TokenFLOOR == <<"F", "L", "O", "O", "R">>
TokenROOF == <<"R", "O", "O", "F">>

categoryMap ==
    [prefix \in {TokenMNT, TokenELEC, TokenPLUMB, TokenHVAC, TokenFLOOR, TokenROOF} |->
        CASE prefix = TokenMNT -> "General Maintenance"
          [] prefix = TokenELEC -> "Electrical"
          [] prefix = TokenPLUMB -> "Plumbing"
          [] prefix = TokenHVAC -> "HVAC"
          [] prefix = TokenFLOOR -> "Flooring"
          [] prefix = TokenROOF -> "Roofing"]

\* getCategoryFromCode(costCode): categoryMap[prefix] || 'Other'
getCategoryFromCode(costCode) ==
    LET prefix == SplitFirst(normalize(costCode), "-")
    IN  IF prefix \in DOMAIN categoryMap THEN categoryMap[prefix] ELSE "Other"

\* The most pieces a code handed to getCategoryFromCode is built from.
MaxCategoryTokens == 4

CategoryTokens ==
    {<<"P", "M", "B">>, TokenMNT, TokenELEC, <<"-">>, <<"0", "0", "1">>, <<"X">>}

InitGetCategoryFromCode ==
    /\ cpc = "call"
    /\ cFn = "getCategoryFromCode"
    /\ cArg \in {Flatten(pieces) : pieces \in SeqsUpTo(CategoryTokens, MaxCategoryTokens)}
    /\ cResult = <<>>

\* costCodeService.getCategoryFromCode(code)
GetCategoryFromCode ==
    /\ cpc = "call"
    /\ cFn = "getCategoryFromCode"
    /\ cpc' = "returned"
    /\ cResult' = getCategoryFromCode(cArg)
    /\ UNCHANGED <<cFn, cArg>>
    /\ UNCHANGED codeFrame

\* The token of a code before its first separator, the branch prefix apart:
\* the code trimmed, in upper case, without its branch prefix, up to the
\* first dash.
PrefixToken(costCode) ==
    LET upper == ToUpperCase(Trim(costCode))
        i == FirstPrefix(upper)
        stripped == IF i = 0 THEN upper
                    ELSE Trim(Substring(upper, Len(BRANCH_PREFIXES[i].text) + 1))
    IN  SplitFirst(stripped, "-")

\* C25: a code whose prefix token is one of MNT, ELEC, PLUMB, HVAC, FLOOR,
\* ROOF maps to that token's category ('MNT-001' to 'General Maintenance',
\* 'PMB-ELEC-002' to 'Electrical'); every other code maps to 'Other'.
C25_PrefixTokenCategory ==
    (cpc = "returned" /\ cFn = "getCategoryFromCode")
       => cResult = IF PrefixToken(cArg) \in DOMAIN categoryMap
                    THEN categoryMap[PrefixToken(cArg)]
                    ELSE "Other"

CodesOthersIdle ==
    DbInit /\ FilterIdle /\ CacheIdle /\ DataIdle /\ RequestsIdle /\ PoolsIdle /\ PagesIdle

InitCodes ==
    /\ CodesOthersIdle
    /\ \/ InitNormalize
       \/ InitFindBestMatch
       \/ InitDeduplicateCodes
       \/ InitGetCategoryFromCode

NextCodes ==
    \/ Normalize
    \/ FindBestMatch
    \/ DeduplicateCodes
    \/ GetCategoryFromCode

SpecCodes == InitCodes /\ [][NextCodes]_vars

(* ------------------------------------------------------------------ *)
(* GET /api/maintenance/records: requests of several users             *)
(* ------------------------------------------------------------------ *)

\* req.user of the requests: an administrator, a user of one branch, and a
\* user of every branch with assigned groups stored as JSON text.
RequestUsers ==
    {[role |-> "ADMIN", branch |-> "ALL", assignedGroups |-> JsNull,
      assignedCostCodes |-> JsNull],
     [role |-> "User", branch |-> "PMB", assignedGroups |-> JsNull,
      assignedCostCodes |-> JsNull],
     [role |-> "User", branch |-> "ALL",
      assignedGroups |-> JsString(JsonStringify(<<"Plumbing">>)),
      assignedCostCodes |-> JsNull]}

\* What queryAllBranches resolves with for these requests: Pretoria
\* answers with its rows, Queenstown is unreachable, and Cape Town is
\* unreachable or answers with its rows.
RequestFetchResults ==
    {result \in AllBranchResults :
        /\ result[2] = ExecSuccess("PTA", BranchRows["PTA"])
        /\ ~result[3].success
        /\ result[4].success => result[4].data # <<>>}

\* cacheKey of getPurchaseRecords(null, {})
RecordsKey == generateKey(RecordsPrefix(NoBranch), <<>>)

RecordsRoute_Unfiltered(allRecords, user) ==
    [status |-> 200, records |-> allRecords]

\* records = filterDataByPermissions(allRecords, req.user);
\* res.json({ records, recordCount: records.length })
RecordsRoute(allRecords, user) ==
    [status |-> 200, records |-> filterDataByPermissions(allRecords, user)]

\* res.status(500).json({ error: 'Server error fetching records' })
ServerError == [status |-> 500, records |-> <<>>]

InitRequests == DbInit /\ FilterIdle /\ CacheIdle /\ DataIdle /\ ExtraIdle

\* A request arrives: the route calls getPurchaseRecords(null, {}), which
\* looks the key up; on a hit the cached records are filtered and sent, on
\* a miss the request awaits its own queryAllBranches.
RecordsRequest(r, user) ==
    /\ rpc[r] = "idle"
    /\ CacheGet(RecordsKey)
    /\ rUser' = [rUser EXCEPT ![r] = user]
    /\ IF Truthy(call'.result)
       THEN /\ rpc' = [rpc EXCEPT ![r] = "done"]
            /\ rOrigin' = [rOrigin EXCEPT ![r] = cacheOrigin]
            /\ rResponse' = [rResponse EXCEPT ![r] = RecordsRoute(call'.result.items, user)]
            /\ UNCHANGED rWith
       ELSE /\ rpc' = [rpc EXCEPT ![r] = "fetching"]
            /\ rWith' = [rWith EXCEPT ![r] = {s \in Requests : rpc[s] = "fetching"}]
            /\ UNCHANGED <<rOrigin, rResponse>>
    /\ UNCHANGED <<finished, cacheOrigin>>
    /\ UNCHANGED requestFrame

\* queryAllBranches of request r resolves: the rows are processed, cached,
\* filtered and sent, or the TypeError of _processRecords ends in a 500.
RecordsFetched(r, result) ==
    /\ rpc[r] = "fetching"
    /\ rpc' = [rpc EXCEPT ![r] = "done"]
    /\ rOrigin' = [rOrigin EXCEPT ![r] = result]
    /\ finished' = Append(finished, r)
    /\ IF ProcessThrows(result)
       THEN /\ rResponse' = [rResponse EXCEPT ![r] = ServerError]
            /\ UNCHANGED <<cacheVars, cacheOrigin>>
       ELSE /\ CacheSet(RecordsKey, JsArray(processRecords(result)), RecordsTtl)
            /\ cacheOrigin' = result
            /\ rResponse' = [rResponse EXCEPT
                               ![r] = RecordsRoute(processRecords(result), rUser[r])]
    /\ UNCHANGED <<rUser, rWith>>
    /\ UNCHANGED requestFrame

\* The response of request r is out; the next request can take its place.
RecordsResponded(r) ==
    /\ rpc[r] = "done"
    /\ rpc' = [rpc EXCEPT ![r] = "idle"]
    /\ rUser' = [rUser EXCEPT ![r] = NoUser]
    /\ rOrigin' = [rOrigin EXCEPT ![r] = <<>>]
    /\ rResponse' = [rResponse EXCEPT ![r] = NoResponse]
    /\ rWith' = [s \in Requests |-> IF s = r THEN {} ELSE rWith[s] \ {r}]
    /\ finished' = SelectSeq(finished, LAMBDA s : s # r)
    /\ UNCHANGED cacheOrigin
    /\ UNCHANGED <<cacheVars, requestFrame>>

NextRequests ==
    \/ \E r \in Requests, user \in RequestUsers : RecordsRequest(r, user)
    \/ \E r \in Requests, result \in RequestFetchResults : RecordsFetched(r, result)
    \/ \E r \in Requests : RecordsResponded(r)
    \/ \E dt \in TickSteps : Tick(dt)

SpecRequests == InitRequests /\ [][NextRequests]_vars

\* C26: in every interleaving of the requests, the cache holds nothing but
\* the unfiltered merged list of a fetch under the key of the resource and
\* filters, and the records sent to a user, from the cache or from a fetch,
\* are filterDataByPermissions of that merged list for that user.
C26_FilteredPerUser ==
    /\ DOMAIN cache \subseteq {RecordsKey}
    /\ Has(RecordsKey)
          => cache[RecordsKey].value = JsArray(processRecords(cacheOrigin))
    /\ \A r \in Requests :
          (rpc[r] = "done" /\ rResponse[r].status = 200)
             => rResponse[r].records =
                   filterDataByPermissions(processRecords(rOrigin[r]), rUser[r])

\* Request 2 fetched and was sent its list; request 1, of another user, is
\* served from the entry request 2 wrote and gets a shorter, non-empty list.
C26_Witness ==
    /\ rpc[1] = "done" /\ rpc[2] = "done"
    /\ call.name = "get" /\ call.path = "hit"
    /\ finished = <<2>>
    /\ rOrigin[1] = rOrigin[2]
    /\ rUser[1] # rUser[2]
    /\ rResponse[1].status = 200 /\ rResponse[2].status = 200
    /\ rResponse[1].records # <<>>
    /\ Len(rResponse[1].records) < Len(rResponse[2].records)
    /\ Len(rResponse[2].records) < Len(processRecords(rOrigin[2]))

\* Requests r and s both missed the cache and awaited their own fetch at
\* the same time, and both fetches have resolved.
OverlappedMisses(r, s) ==
    /\ r # s
    /\ s \in rWith[r]
    /\ rpc[r] = "done" /\ rpc[s] = "done"
    /\ \E i, j \in 1..Len(finished) : finished[i] = r /\ finished[j] = s

\* C27: two overlapping calls with the same key that both miss each run
\* their own fan-out; both complete and write the cache, and the entry
\* left is the one of the call that finished last.
C27_BothWriteLastWins ==
    \A r, s \in Requests :
       OverlappedMisses(r, s)
          => /\ rResponse[r].status = 200
             /\ rResponse[s].status = 200
             /\ Has(RecordsKey)
             /\ cache[RecordsKey].value =
                   JsArray(processRecords(rOrigin[finished[Len(finished)]]))

(* ------------------------------------------------------------------ *)
(* DatabaseManager: createPool, getPool, getConnectionStatus           *)
(* ------------------------------------------------------------------ *)

\* `delete map[key]` where map is a Map: it removes an own property of the
\* object, and the entries of the Map are not properties.
PropertyDelete(map, key) == map

\* this.pools.delete(branch)
PoolsDelete(map, key) == map \ {key}

\* this.poolPromises.delete(branch)
PoolPromisesDelete(map, key) == [map EXCEPT ![key] = "absent"]

\* getPool(branch) up to its first await: when no promise is held, a new
\* one is stored, which calls createPool unless this.pools has the branch;
\* the promise held is returned.
GetPool(branch) ==
    /\ IF poolPromises[branch] = "absent"
       THEN /\ poolPromises' =
                  [poolPromises EXCEPT
                      ![branch] = IF branch \in pools THEN "fulfilled" ELSE "pending"]
            /\ served' = [served EXCEPT
                             ![branch] = IF branch \in pools THEN "pool" ELSE "new"]
       ELSE /\ UNCHANGED poolPromises
            /\ served' = [served EXCEPT
                             ![branch] = IF poolPromises[branch] = "rejected"
                                         THEN "failure" ELSE "held"]
    /\ UNCHANGED pools

InitPools == DbInit /\ FilterIdle /\ CacheIdle /\ DataIdle /\ ExtraIdle

poolFrame ==
    <<dbVars, filterVars, cacheVars, dataVars, codeVars, requestVars, pageVars>>

\* getConnectionStatus() is called: const status = {}, and the loop awaits
\* getPool of the first branch.
GetConnectionStatus ==
    /\ spc = 0
    /\ spc' = 1
    /\ status' = [b \in Branches |-> "unset"]
    /\ GetPool(branchOrder[1])
    /\ UNCHANGED poolFrame

\* sql.connect of createPool(branch) resolves: the pool is returned, stored
\* in this.pools, and the promise is fulfilled with it.
ConnectResolves(branch) ==
    /\ poolPromises[branch] = "pending"
    /\ pools' = pools \cup {branch}
    /\ poolPromises' = [poolPromises EXCEPT ![branch] = "fulfilled"]
    /\ UNCHANGED <<served, spc, status>>
    /\ UNCHANGED poolFrame

\* sql.connect of createPool(branch) rejects: the catch block runs its
\* two delete statements and rethrows, which rejects the promise.
ConnectRejects(branch) ==
    /\ poolPromises[branch] = "pending"
    /\ pools' = PropertyDelete(pools, branch)
    /\ poolPromises' = [PropertyDelete(poolPromises, branch) EXCEPT ![branch] = "rejected"]
    /\ UNCHANGED <<served, spc, status>>
    /\ UNCHANGED poolFrame

\* The loop of getConnectionStatus has the promise of its branch settled:
\* SELECT 1 runs on the pool (queryOk: it resolves) or the catch block
\* records the failure; then the next branch, or the return.
StatusOfBranch(queryOk) ==
    /\ spc \in 1..Len(branchOrder)
    /\ poolPromises[branchOrder[spc]] \in {"fulfilled", "rejected"}
    /\ queryOk => poolPromises[branchOrder[spc]] = "fulfilled"
    /\ status' = [status EXCEPT
                     ![branchOrder[spc]] = IF queryOk THEN "connected" ELSE "failed"]
    /\ spc' = spc + 1
    /\ IF spc < Len(branchOrder)
       THEN GetPool(branchOrder[spc + 1])
       ELSE UNCHANGED <<pools, poolPromises, served>>
    /\ UNCHANGED poolFrame

\* return status
StatusReturned ==
    /\ spc = Len(branchOrder) + 1
    /\ spc' = 0
    /\ UNCHANGED <<pools, poolPromises, served, status>>
    /\ UNCHANGED poolFrame

\* pool.on('error', ...) of a pool in use
PoolError(branch) ==
    /\ branch \in pools
    /\ poolPromises[branch] = "fulfilled"
    /\ pools' = PoolsDelete(pools, branch)
    /\ poolPromises' = PoolPromisesDelete(poolPromises, branch)
    /\ UNCHANGED <<served, spc, status>>
    /\ UNCHANGED poolFrame

\* closeAllPools(): every pool is closed and this.pools cleared
CloseAllPools ==
    /\ pools # {}
    /\ pools' = {}
    /\ UNCHANGED <<poolPromises, served, spc, status>>
    /\ UNCHANGED poolFrame

NextPools ==
    \/ GetConnectionStatus
    \/ \E branch \in Branches : ConnectResolves(branch)
    \/ \E branch \in Branches : ConnectRejects(branch)
    \/ \E queryOk \in BOOLEAN : StatusOfBranch(queryOk)
    \/ StatusReturned
    \/ \E branch \in Branches : PoolError(branch)
    \/ CloseAllPools

SpecPools == InitPools /\ [][NextPools]_vars

\* C28: a failed pool creation leaves no entry for the branch in the
\* pool-promise cache (nor in the pool cache), and no getPool(branch) is
\* answered with the failure of an earlier attempt.
C28_FailedAttemptRemoved ==
    \A b \in Branches :
       /\ poolPromises[b] # "rejected"
       /\ served[b] # "failure"

(* ------------------------------------------------------------------ *)
(* queryAllBranches under fair scheduling                             *)
(* ------------------------------------------------------------------ *)

\* request.query() of an execution of b that answers
QueryAnswers(b) == Query(b) /\ phase'[b] = "close"

\* connection.close() of an execution of b that answers
CloseAnswers(b) == Close(b) /\ phase'[b] = "settled" /\ settled'[b].success

\* A call of queryAllBranches with retries, and the executions it starts,
\* each of which ends with the connect timeout or with an answer.
NextRetryCall ==
    \/ QueryAllBranches
    \/ FirstPassDone
    \/ BackoffElapsed
    \/ RetryNext
    \/ RetryResult
    \/ RoundEnd
    \/ \E b \in Branches : Connect(b)
    \/ \E b \in Branches : QueryAnswers(b)
    \/ \E b \in Branches : CloseAnswers(b)

\* Every execution returns: each of its awaits (connect, bounded by
\* connectTimeout, query, close) settles.
ExecutionsReturn ==
    \A b \in Branches :
       WF_vars(Connect(b)) /\ WF_vars(QueryAnswers(b)) /\ WF_vars(CloseAnswers(b))

\* The event loop runs the continuation of a settled await, and the timer
\* of a backoff wait fires.
ContinuationsRun ==
    /\ WF_vars(FirstPassDone)
    /\ WF_vars(BackoffElapsed)
    /\ WF_vars(RetryNext)
    /\ WF_vars(RetryResult)
    /\ WF_vars(RoundEnd)

SpecRetryFair ==
    Init /\ [][NextRetryCall]_vars /\ ExecutionsReturn /\ ContinuationsRun

NaN == [nan |-> TRUE, value |-> 0]
Number(n) == [nan |-> FALSE, value |-> n]

DigitValue(c) == (CHOOSE i \in 1..Len(Digits) : Digits[i] = c) - 1

\* The value of the digits s starts with, from accumulator acc on.
RECURSIVE LeadingDigits(_, _)
LeadingDigits(s, acc) ==
    IF s = <<>> \/ Head(s) \notin Range(Digits) THEN acc
    ELSE LeadingDigits(Tail(s), 10 * acc + DigitValue(Head(s)))

\* parseInt(s) of an absent parameter or of a string without sign or
\* leading white space
ParseInt(s) ==
    IF s = Null \/ s = <<>> \/ Head(s) \notin Range(Digits) THEN NaN
    ELSE Number(LeadingDigits(s, 0))

\* v || d, where v is a number
OrDefault(v, d) == IF v.nan \/ v.value = 0 THEN d ELSE v.value

Max2(a, b) == IF a >= b THEN a ELSE b

\* Math.max(1, parseInt(req.query.page) || 1)
PageNumberOf(page) == Max2(1, OrDefault(ParseInt(page), 1))

\* Math.min(500, Math.max(10, parseInt(req.query.pageSize) || 50))
PageSizeOf(pageSize) == Min2(500, Max2(10, OrDefault(ParseInt(pageSize), 50)))

\* Math.ceil(a / b) for a >= 0, b > 0
Ceil(a, b) == (a + b - 1) \div b

\* records.slice(startIndex, endIndex) for 0 <= startIndex <= endIndex
Slice(records, startIndex, endIndex) ==
    SubSeq(records, startIndex + 1, Min2(endIndex, Len(records)))

\* if (pageNumber < 1) pageNumber = 1;
\* if (pageNumber > totalPages && totalPages > 0) pageNumber = totalPages;
ValidPage(pageNumber, totalPages) ==
    LET atLeastOne == IF pageNumber < 1 THEN 1 ELSE pageNumber
    IN  IF atLeastOne > totalPages /\ totalPages > 0 THEN totalPages ELSE atLeastOne

\* paginateRecords(records, pageNumber, pageSize)
paginateRecords(records, pageNumber, pageSize) ==
    LET totalRecords == Len(records)
        totalPages == Ceil(totalRecords, pageSize)
        page == ValidPage(pageNumber, totalPages)
        startIndex == (page - 1) * pageSize
    IN  [data |-> Slice(records, startIndex, startIndex + pageSize),
         pagination |-> [currentPage |-> page,
                         pageSize |-> pageSize,
                         totalRecords |-> totalRecords,
                         totalPages |-> totalPages,
                         hasNextPage |-> page < totalPages,
                         hasPreviousPage |-> page > 1]]

\* The longest list that is paginated.
MaxTotal == 23

\* req.query.page: absent, empty, not a number, and numbers.
PageParams ==
    {Null, <<>>, <<"x">>, <<"0">>, <<"1">>, <<"2">>, <<"3">>, <<"4">>}

\* req.query.pageSize: absent, below the least, and within and above the
\* range.
PageSizeParams ==
    {Null, <<"5">>, <<"1", "0">>, <<"1", "1">>, <<"6", "0", "0">>}

InitPages ==
    /\ DbInit /\ FilterIdle /\ CacheIdle /\ DataIdle
    /\ CodesIdle /\ RequestsIdle /\ PoolsIdle
    /\ ppc = "call"
    /\ pRecords \in {[i \in 1..n |-> i] : n \in 0..MaxTotal}
    /\ pQuery \in [page : PageParams, pageSize : PageSizeParams]
    /\ pResult = <<>>

\* The end of the records route: with a page parameter the filtered list
\* is paginated, without one it is sent whole.
Paginate ==
    /\ ppc = "call"
    /\ ppc' = "returned"
    /\ pResult' = IF pQuery.page # Null /\ pQuery.page # <<>>
                  THEN paginateRecords(pRecords, PageNumberOf(pQuery.page),
                                       PageSizeOf(pQuery.pageSize))
                  ELSE [data |-> pRecords,
                        pagination |-> [currentPage |-> 0, pageSize |-> 0,
                                        totalRecords |-> Len(pRecords),
                                        totalPages |-> 0,
                                        hasNextPage |-> FALSE,
                                        hasPreviousPage |-> FALSE]]
    /\ UNCHANGED <<pRecords, pQuery>>
    /\ UNCHANGED <<dbVars, filterVars, cacheVars, dataVars, codeVars, requestVars,
                   poolVars>>

NextPages == Paginate

SpecPages == InitPages /\ [][NextPages]_vars

Paginated == ppc = "returned" /\ pQuery.page # Null /\ pQuery.page # <<>>

\* C30: for every list, the empty one included, every page number >= 1 and
\* every page size in 10..500, totalPages is ceil(totalRecords / pageSize),
\* currentPage is within 1..max(1, totalPages), hasNextPage holds exactly
\* when currentPage < totalPages, hasPreviousPage exactly when there is a
\* page before currentPage, and data is the currentPage-th slice of at most
\* pageSize records.
C30_PaginationMetadata ==
    Paginated
       => LET p == pResult.pagination
              pages == 1..p.totalPages
          IN  /\ p.pageSize \in 10..500
              /\ p.totalRecords = Len(pRecords)
              /\ p.totalPages * p.pageSize >= p.totalRecords
              /\ (p.totalPages - 1) * p.pageSize < p.totalRecords
              /\ p.currentPage \in 1..Max2(1, p.totalPages)
              /\ p.hasNextPage <=> p.currentPage < p.totalPages
              /\ p.hasPreviousPage <=> \E q \in pages : q < p.currentPage
              /\ Len(pResult.data) <= p.pageSize
              /\ \A i \in 1..Len(pResult.data) :
                    pResult.data[i] = pRecords[(p.currentPage - 1) * p.pageSize + i]
              /\ Len(pResult.data) =
                    Min2(p.pageSize,
                         Max2(0, p.totalRecords - (p.currentPage - 1) * p.pageSize))

====
